---------------------------- MODULE Spec2Model ----------------------------
(***************************************************************************)
(* LPID: a prefixed, sortable identifier (src/lpid.py).                    *)
(*                                                                         *)
(* A Python str is a sequence of characters; a character is a one-letter   *)
(* TLA+ string, and the two non-ASCII letters the model uses are written   *)
(* "U+00E9" (e acute, a lowercase letter) and "U+4E2D" (a CJK letter,      *)
(* which has no case).  A value is a record [cls, prefix, uid, text]: an    *)
(* LPID instance has cls "LPID", a str has its characters in text.  A call *)
(* ends in an outcome [exc, msg, value, bool]: exc is "" when it returns,  *)
(* else the exception's class.  A KsuidMs (the ksuid package imported at line 13)  *)
(* is its 20 bytes: a 5-byte timestamp in 1/256 s ticks since the KSUID    *)
(* epoch followed by a 15-byte random payload; its text is the base 62     *)
(* numeral of those bytes read as one big-endian number, left-filled with  *)
(* "0" to 27 characters.  The numbers do not fit TLC's integers, so the    *)
(* codec works on digit sequences by long division, as the arithmetic of   *)
(* the package does on Python's unbounded integers.                        *)
(***************************************************************************)
EXTENDS Integers, Sequences, FiniteSets, TLC

VARIABLES heap, origin, now, closures, ret

vars == <<heap, origin, now, closures, ret>>

-----------------------------------------------------------------------------
(* Bounds of the model.                                                    *)

\* object slots: how many identifier instances are alive at once
MaxLive == 2
\* the clock and the instants handed to generate run over 0..MaxInstant
MaxInstant == 3
\* instants per timestamp tick of the uid (a datetime is finer than a tick)
InstantsPerTick == 2
\* the random payload's last byte is drawn from 0..MaxPayload
MaxPayload == 1
\* closures made by the two factory functions and not yet dropped
MaxClosures == 1

-----------------------------------------------------------------------------
(* Characters and Python's str predicates.                                 *)

DigitChars == <<"0","1","2","3","4","5","6","7","8","9">>
UpperChars == <<"A","B","C","D","E","F","G","H","I","J","K","L","M",
                "N","O","P","Q","R","S","T","U","V","W","X","Y","Z">>
LowerChars == <<"a","b","c","d","e","f","g","h","i","j","k","l","m",
                "n","o","p","q","r","s","t","u","v","w","x","y","z">>

\* the alphabet of the uid's text, in digit order
BASE62_ALPHABET == DigitChars \o UpperChars \o LowerChars

Range(s) == { s[i] : i \in DOMAIN s }

IndexOf(s, c) == CHOOSE i \in DOMAIN s : s[i] = c

Digits == Range(DigitChars)
Uppercase == Range(UpperChars)
Lowercase == Range(LowerChars)
Base62Chars == Range(BASE62_ALPHABET)

\* the digit a character of the alphabet stands for
Base62Value == [c \in Base62Chars |-> IndexOf(BASE62_ALPHABET, c) - 1]

\* Unicode code points: str comparison orders by them
CodePoint(c) ==
    CASE c \in Digits -> 47 + IndexOf(DigitChars, c)
      [] c \in Uppercase -> 64 + IndexOf(UpperChars, c)
      [] c \in Lowercase -> 96 + IndexOf(LowerChars, c)
      [] c = "!" -> 33
      [] c = "-" -> 45
      [] c = "_" -> 95
      [] c = "U+00E9" -> 233
      [] c = "U+4E2D" -> 20013

IsUpperChar(c) == c \in Uppercase
IsLowerChar(c) == c \in Lowercase \/ c = "U+00E9"
IsLetter(c) == IsUpperChar(c) \/ IsLowerChar(c) \/ c = "U+4E2D"

\* str.isalpha: at least one character, and every character a letter
isalpha(s) == Len(s) > 0 /\ \A i \in DOMAIN s : IsLetter(s[i])

\* str.islower: no uppercase character, and at least one cased character
islower(s) ==
    /\ \A i \in DOMAIN s : ~IsUpperChar(s[i])
    /\ \E i \in DOMAIN s : IsLowerChar(s[i])

RECURSIVE StrLess(_, _)
\* str.__lt__: the first differing code point decides, a proper prefix is smaller
StrLess(s, t) ==
    IF t = <<>> THEN FALSE
    ELSE IF s = <<>> THEN TRUE
    ELSE IF Head(s) = Head(t) THEN StrLess(Tail(s), Tail(t))
    ELSE CodePoint(Head(s)) < CodePoint(Head(t))

RECURSIVE split(_, _)
\* str.split(sep): the parts between the separators, one more than separators
split(s, sep) ==
    IF \A i \in DOMAIN s : s[i] # sep THEN <<s>>
    ELSE LET k == CHOOSE i \in DOMAIN s :
                     s[i] = sep /\ \A j \in 1..(i-1) : s[j] # sep
         IN  <<SubSeq(s, 1, k-1)>> \o split(SubSeq(s, k+1, Len(s)), sep)

Repeat(c, n) == [i \in 1..n |-> c]

-----------------------------------------------------------------------------
(* The KsuidMs collaborator: bytes, order and the base 62 codec.           *)

TIMESTAMP_LENGTH_IN_BYTES == 5
PAYLOAD_LENGTH_IN_BYTES == 15
BYTES_LENGTH == TIMESTAMP_LENGTH_IN_BYTES + PAYLOAD_LENGTH_IN_BYTES
BASE62_LENGTH == 27

RECURSIVE LongDiv(_, _, _, _, _)
\* digits (most significant first, in base `base`) divided by d: quotient and rest
LongDiv(digits, base, d, q, r) ==
    IF digits = <<>> THEN [q |-> q, r |-> r]
    ELSE LET cur == r * base + Head(digits)
         IN  LongDiv(Tail(digits), base, d, Append(q, cur \div d), cur % d)

RECURSIVE StripZeros(_)
StripZeros(digits) ==
    IF digits # <<>> /\ Head(digits) = 0 THEN StripZeros(Tail(digits)) ELSE digits

RECURSIVE ToBase(_, _, _)
\* the numeral of a number in another base, no leading zeros (zero is <<>>):
\* x % to is the last digit, x // to the rest, until x = 0
ToBase(digits, from, to) ==
    LET x == StripZeros(digits)
    IN  IF x = <<>> THEN <<>>
        ELSE LET qr == LongDiv(x, from, to, <<>>, 0)
             IN  Append(ToBase(qr.q, from, to), qr.r)

\* str.zfill / the left fill of int.to_bytes
ZFill(s, n, c) == IF Len(s) >= n THEN s ELSE Repeat(c, n - Len(s)) \o s

\* int.to_bytes(n, length, "big") of a small number n >= 0
RECURSIVE SmallDigits(_, _)
SmallDigits(n, base) ==
    IF n = 0 THEN <<>> ELSE Append(SmallDigits(n \div base, base), n % base)

to_bytes(n, length) == ZFill(SmallDigits(n, 256), length, 0)

\* Ksuid.__str__: base62.encode(int.from_bytes(bytes, "big")).zfill(27)
KsuidStr(uid) ==
    LET d == ToBase(uid, 256, 62)
        numeral == IF d = <<>> THEN <<"0">>
                   ELSE [i \in DOMAIN d |-> BASE62_ALPHABET[d[i] + 1]]
    IN  ZFill(numeral, BASE62_LENGTH, "0")

NoUid == <<>>

KsuidOk(uid) == [exc |-> "", uid |-> uid]
KsuidRaise(exc) == [exc |-> exc, uid |-> NoUid]

\* Ksuid.from_base62: base62.decode reads an optional "-" sign and then the
\* digits (a character outside the alphabet is a ValueError); int.to_bytes takes
\* neither a negative number nor one of more than 20 bytes (OverflowError)
from_base62(data) ==
    IF data = <<>> THEN KsuidRaise("IndexError")
    ELSE LET neg == Head(data) = "-"
             body == IF neg THEN Tail(data) ELSE data
         IN  IF \E i \in DOMAIN body : body[i] \notin Base62Chars
             THEN KsuidRaise("ValueError")
             ELSE LET d == [i \in DOMAIN body |-> Base62Value[body[i]]]
                      b == ToBase(d, 62, 256)
                  IN  IF neg /\ b # <<>> THEN KsuidRaise("OverflowError")
                      ELSE IF Len(b) > BYTES_LENGTH THEN KsuidRaise("OverflowError")
                      ELSE KsuidOk(ZFill(b, BYTES_LENGTH, 0))

RECURSIVE BytesLess(_, _)
\* bytes.__lt__ on the raw uid
BytesLess(a, b) ==
    IF b = <<>> THEN FALSE
    ELSE IF a = <<>> THEN TRUE
    ELSE IF Head(a) = Head(b) THEN BytesLess(Tail(a), Tail(b))
    ELSE Head(a) < Head(b)

\* Ksuid.__eq__, __lt__, and the __gt__ that total_ordering derives from them
KsuidEq(a, b) == a = b
KsuidLt(a, b) == BytesLess(a, b)
KsuidGt(a, b) == ~KsuidLt(a, b) /\ ~KsuidEq(a, b)

\* round() of the quotient n / d: the nearest integer, a half going to the even
RoundDiv(n, d) ==
    LET q == n \div d
        r == n % d
    IN  IF 2 * r < d THEN q
        ELSE IF 2 * r > d THEN q + 1
        ELSE IF q % 2 = 0 THEN q ELSE q + 1

\* the timestamp tick an instant falls in (instants count from the KSUID epoch)
TickOf(at) == RoundDiv(at, InstantsPerTick)

Payloads ==
    { Repeat(0, PAYLOAD_LENGTH_IN_BYTES - 1) \o <<p>> : p \in 0..MaxPayload }

\* KsuidMs(datetime, payload): timestamp bytes, then the payload
KsuidMs(at, payload) == to_bytes(TickOf(at), TIMESTAMP_LENGTH_IN_BYTES) \o payload

\* Ksuid.timestamp, in ticks
KsuidTick(uid) ==
    LET t == SubSeq(uid, 1, TIMESTAMP_LENGTH_IN_BYTES)
    IN  t[5] + 256 * t[4] + 65536 * t[3]

-----------------------------------------------------------------------------
(* Values and outcomes.                                                    *)

None == -1

NoValue == [cls |-> "", prefix |-> <<>>, uid |-> NoUid, text |-> <<>>]
Instance(prefix, uid) == [cls |-> "LPID", prefix |-> prefix, uid |-> uid, text |-> <<>>]
StrValue(text) == [cls |-> "str", prefix |-> <<>>, uid |-> NoUid, text |-> text]
KsuidValue(uid) == [cls |-> "KsuidMs", prefix |-> <<>>, uid |-> uid, text |-> <<>>]
NoneValue == [cls |-> "NoneType", prefix |-> <<>>, uid |-> NoUid, text |-> <<>>]

Return(v) == [exc |-> "", msg |-> "", value |-> v, bool |-> FALSE]
ReturnBool(b) == [exc |-> "", msg |-> "", value |-> NoValue, bool |-> b]
Raise(exc, msg) == [exc |-> exc, msg |-> msg, value |-> NoValue, bool |-> FALSE]

Returned(out) == out.exc = ""

-----------------------------------------------------------------------------
(* class LPID                                                              *)

\* isinstance(other, self.__class__)
IsInstance(other, self) == other.cls = self.cls

__init__(prefix, uid) ==
    IF uid.cls = "str"
    THEN LET k == from_base62(uid.text)
         IN  IF k.exc # "" THEN Raise(k.exc, "from_base62")
             ELSE Return(Instance(prefix, k.uid))
    ELSE Return(Instance(prefix, uid.uid))

\* variant of __str__: the separator left out
__str__unseparated(self) == self.prefix \o KsuidStr(self.uid)

__str__(self) == self.prefix \o <<"_">> \o KsuidStr(self.uid)

\* variant of __eq__: the prefixes not compared
__eq__uid_only(self, other) ==
    IF IsInstance(other, self)
    THEN ReturnBool(KsuidEq(self.uid, other.uid))
    ELSE ReturnBool(FALSE)

__eq__(self, other) ==
    IF IsInstance(other, self)
    THEN ReturnBool(self.prefix = other.prefix /\ KsuidEq(self.uid, other.uid))
    ELSE ReturnBool(FALSE)

\* variant of __gt__: different prefixes compared as __lt__ compares them
__gt__as_lt(self, other) ==
    IF IsInstance(other, self)
    THEN IF self.prefix = other.prefix
         THEN ReturnBool(KsuidGt(self.uid, other.uid))
         ELSE ReturnBool(StrLess(self.prefix, other.prefix))
    ELSE Raise("TypeError", "cannot_compare")

__gt__(self, other) ==
    IF IsInstance(other, self)
    THEN IF self.prefix = other.prefix
         THEN ReturnBool(KsuidGt(self.uid, other.uid))
         ELSE ReturnBool(StrLess(other.prefix, self.prefix))
    ELSE Raise("TypeError", "cannot_compare")

\* variant of __lt__: the uids compared whatever the prefixes
__lt__uid_only(self, other) ==
    IF IsInstance(other, self)
    THEN ReturnBool(KsuidLt(self.uid, other.uid))
    ELSE Raise("TypeError", "cannot_compare")

__lt__(self, other) ==
    IF IsInstance(other, self)
    THEN IF self.prefix = other.prefix
         THEN ReturnBool(KsuidLt(self.uid, other.uid))
         ELSE ReturnBool(StrLess(self.prefix, other.prefix))
    ELSE Raise("TypeError", "cannot_compare")

\* variant of __gte__: False, as __eq__ answers, for a value of another class
__gte__no_raise(self, other) ==
    IF IsInstance(other, self)
    THEN IF __eq__(self, other).bool THEN ReturnBool(TRUE) ELSE __gt__(self, other)
    ELSE ReturnBool(FALSE)

__gte__(self, other) ==
    IF IsInstance(other, self)
    THEN IF __eq__(self, other).bool THEN ReturnBool(TRUE) ELSE __gt__(self, other)
    ELSE Raise("TypeError", "cannot_compare")

__lte__(self, other) ==
    IF IsInstance(other, self)
    THEN IF __eq__(self, other).bool THEN ReturnBool(TRUE) ELSE __lt__(self, other)
    ELSE Raise("TypeError", "cannot_compare")

from_string(string, prefix) ==
    LET split_content == split(string, "_")
    IN  IF Len(split_content) # 2 THEN Raise("ValueError", "form")
        ELSE LET _prefix == split_content[1]
                 encoded_uid == split_content[2]
             IN  IF ~isalpha(_prefix) THEN Raise("ValueError", "prefix_not_alphabetic")
                 ELSE IF ~islower(_prefix) THEN Raise("ValueError", "prefix_not_lowercase")
                 ELSE IF _prefix # prefix THEN Raise("ValueError", "prefix_not_expected")
                 ELSE IF encoded_uid = <<>> THEN Raise("ValueError", "uid_empty")
                 ELSE IF Len(encoded_uid) # 27 THEN Raise("ValueError", "uid_not_27")
                 ELSE LET uid == from_base62(encoded_uid)
                      IN  IF uid.exc # "" THEN Raise(uid.exc, "from_base62")
                          ELSE __init__(prefix, KsuidValue(uid.uid))

\* variant of generate: at not handed on to KsuidMs
generate_ignoring_at(prefix, at, clock, payload) ==
    __init__(prefix, KsuidValue(KsuidMs(clock, payload)))

\* generate(prefix, at): KsuidMs(at) reads the clock when at is None and draws
\* its payload; clock and payload are what the environment hands to the call
generate(prefix, at, clock, payload) ==
    __init__(prefix, KsuidValue(KsuidMs(IF at = None THEN clock ELSE at, payload)))

\* variant of f: the instant read once, when the closure is made
f_reading_clock_once(closure, clock, payload) ==
    generate(closure.prefix, closure.madeAt, clock, payload)

\* the f of LPID.factory(prefix) and of the module's factory(lpid_type), called:
\* generate(prefix) with no instant.  madeAt is history: no code reads it
f(closure, clock, payload) == generate(closure.prefix, None, clock, payload)

\* LPID.factory(prefix)
LPID_factory(prefix, clock) == [prefix |-> prefix, fn |-> "LPID.factory", madeAt |-> clock]

\* LPID[Literal[prefix]], and the bare class LPID used with no parameter
LpidType(prefix) == [origin |-> "LPID", args |-> <<[args |-> <<prefix>>]>>]
BareLpid == [origin |-> "None", args |-> <<>>]

\* factory(lpid_type)
factory(lpid_type, clock) ==
    LET literal_type == lpid_type.args[1]
        prefix == literal_type.args[1]
    IN  [prefix |-> prefix, fn |-> "factory", madeAt |-> clock]

\* __get_pydantic_core_schema__ up to the validators: the literal prefix of the
\* annotation, or a RuntimeError
prefix_str(source_type) ==
    IF source_type.origin = "None" THEN [exc |-> "RuntimeError", prefix |-> <<>>]
    ELSE LET p == source_type.args[1].args[1]
         IN  IF p = <<>> THEN [exc |-> "RuntimeError", prefix |-> <<>>]
             ELSE [exc |-> "", prefix |-> p]

val_str(P, v) ==
    LET prefixed_id == from_string(v.text, P)
    IN  IF prefixed_id.exc = "ValueError" THEN Raise("AssertionError", prefixed_id.msg)
        ELSE prefixed_id

val_prefix(P, v) ==
    LET w == IF v.cls = "str" THEN val_str(P, v) ELSE Return(v)
    IN  IF ~Returned(w) THEN w
        ELSE IF w.value.prefix = P THEN Return(w.value)
        ELSE Raise("AssertionError", "prefix_not_expected")

\* the JSON branch of the schema: val_str before the python schema (val_prefix)
json_schema(P, v) ==
    LET w == val_str(P, v)
    IN  IF ~Returned(w) THEN w ELSE val_prefix(P, w.value)

-----------------------------------------------------------------------------
(* The state: the instances the caller holds (heap, with origin telling    *)
(* which call made each, for which instant and from what kind of uid), the *)
(* clock (now), the closures the factories returned, and the last call     *)
(* with its outcome (ret).  origin and the via, self, at and made fields   *)
(* of ret are history: for a call that reads the clock, at is the clock at *)
(* the call and made the clock when the closure called was made.           *)

Call(op, via, self, other, text, prefix, at, out) ==
    [op |-> op, via |-> via, self |-> self, other |-> other, text |-> text,
     prefix |-> prefix, at |-> at, made |-> None, out |-> out]

NoCall == Call("", "", NoValue, NoValue, <<>>, <<>>, None, Return(NoValue))

\* the calls that return an instance
Constructors == {"new", "generate", "f", "from_string"}

\* ret holds an instance a constructor just returned
Fresh ==
    /\ ret.op \in Constructors
    /\ Returned(ret.out)
    /\ ret.out.value.cls = "LPID"

Init ==
    /\ heap = <<>>
    /\ origin = <<>>
    /\ now = 0
    /\ closures = {}
    /\ ret = NoCall

\* the clock advances between calls
Tick ==
    /\ now < MaxInstant
    /\ now' = now + 1
    /\ UNCHANGED <<heap, origin, closures, ret>>

\* LPID(prefix, uid)
Call_new(prefix, uid) ==
    /\ ret' = Call("new", "", NoValue, uid, <<>>, prefix, None, __init__(prefix, uid))
    /\ UNCHANGED <<heap, origin, now, closures>>

\* LPID.generate(prefix, at), and LPID.generate(prefix) when at is None
Call_generate(prefix, at) ==
    /\ \E payload \in Payloads :
          ret' = Call("generate", IF at = None THEN "clock" ELSE "at",
                      NoValue, NoValue, <<>>, prefix,
                      IF at = None THEN now ELSE at,
                      generate(prefix, at, now, payload))
    /\ UNCHANGED <<heap, origin, now, closures>>

\* LPID.factory(prefix)
Call_LPID_factory(prefix) ==
    /\ Cardinality(closures) < MaxClosures
    /\ closures' = closures \cup {LPID_factory(prefix, now)}
    /\ ret' = Call("LPID.factory", "", NoValue, NoValue, <<>>, prefix, None, Return(NoValue))
    /\ UNCHANGED <<heap, origin, now>>

\* factory(lpid_type)
Call_factory(lpid_type) ==
    /\ Cardinality(closures) < MaxClosures
    /\ closures' = closures \cup {factory(lpid_type, now)}
    /\ ret' = Call("factory", "", NoValue, NoValue, <<>>, <<>>, None, Return(NoValue))
    /\ UNCHANGED <<heap, origin, now>>

\* a closure made by either factory is called
Call_f(closure) ==
    /\ closure \in closures
    /\ \E payload \in Payloads :
          ret' = [Call("f", closure.fn, NoValue, NoValue, <<>>, closure.prefix,
                       now, f(closure, now, payload))
                  EXCEPT !.made = closure.madeAt]
    /\ UNCHANGED <<heap, origin, now, closures>>

\* the caller forgets a closure
DropClosure(closure) ==
    /\ closure \in closures
    /\ closures' = closures \ {closure}
    /\ UNCHANGED <<heap, origin, now, ret>>

\* LPID.from_string(string, prefix); x and via are history (the instance whose
\* text is parsed, when the text is one's)
Call_from_string(string, prefix, x, via) ==
    /\ ret' = Call("from_string", via, x, NoValue, string, prefix, None,
                   from_string(string, prefix))
    /\ UNCHANGED <<heap, origin, now, closures>>

\* str(x)
Call_str(x, via) ==
    /\ ret' = Call("str", via, x, NoValue, <<>>, <<>>, None, Return(StrValue(__str__(x))))
    /\ UNCHANGED <<heap, origin, now, closures>>

\* the caller keeps the instance just returned
Keep ==
    /\ Fresh
    /\ Len(heap) < MaxLive
    /\ heap' = Append(heap, ret.out.value)
    /\ origin' = Append(origin, [via |-> ret.op, at |-> ret.at, uid |-> ret.other.cls])
    /\ UNCHANGED <<now, closures, ret>>

Remove(s, i) == SubSeq(s, 1, i - 1) \o SubSeq(s, i + 1, Len(s))

\* the caller drops an instance
Release(i) ==
    /\ i \in DOMAIN heap
    /\ heap' = Remove(heap, i)
    /\ origin' = Remove(origin, i)
    /\ UNCHANGED <<now, closures, ret>>

CompareOps == {"eq", "gt", "lt", "gte", "lte"}

Compared(op, self, other) ==
    CASE op = "eq" -> __eq__(self, other)
      [] op = "gt" -> __gt__(self, other)
      [] op = "lt" -> __lt__(self, other)
      [] op = "gte" -> __gte__(self, other)
      [] op = "lte" -> __lte__(self, other)

\* self == other, self > other, self < other, self.__gte__(other), self.__lte__(other)
Call_compare(op, self, other) ==
    /\ ret' = Call(op, "", self, other, <<>>, <<>>, None, Compared(op, self, other))
    /\ UNCHANGED <<heap, origin, now, closures>>

\* a model field annotated source_type validates the python value v
Validate_python(source_type, v) ==
    /\ LET P == prefix_str(source_type)
       IN  ret' = Call("val_prefix", "", v, NoValue, v.text, P.prefix, None,
                       IF P.exc # "" THEN Raise(P.exc, "no_literal_prefix")
                       ELSE val_prefix(P.prefix, v))
    /\ UNCHANGED <<heap, origin, now, closures>>

\* a model field annotated source_type validates the JSON string v
Validate_json(source_type, v) ==
    /\ LET P == prefix_str(source_type)
       IN  ret' = Call("json_schema", "", v, NoValue, v.text, P.prefix, None,
                       IF P.exc # "" THEN Raise(P.exc, "no_literal_prefix")
                       ELSE json_schema(P.prefix, v))
    /\ UNCHANGED <<heap, origin, now, closures>>

-----------------------------------------------------------------------------
(* The inputs the calls are made with.                                     *)

\* prefixes a call site passes: two well-formed ones (one a proper prefix of
\* the other), an uppercase one, and a lowercase letter after a caseless one
Prefixes == { <<"a">>, <<"a","b">>, <<"A">>, <<"U+4E2D","a">> }

UidA == Repeat(0, BYTES_LENGTH - 1) \o <<1>>
UidB == to_bytes(1, TIMESTAMP_LENGTH_IN_BYTES) \o Repeat(0, PAYLOAD_LENGTH_IN_BYTES)

\* what LPID(prefix, uid) is given for uid: a KsuidMs, or a str (well-formed,
\* or with a character outside the alphabet)
UidSources ==
    { KsuidValue(UidA), KsuidValue(UidB), StrValue(KsuidStr(UidA)),
      StrValue(Repeat("!", BASE62_LENGTH)) }

\* values that are no LPID
Strangers == { StrValue(<<"a">>), NoneValue, KsuidValue(UidA) }

\* the first part of a text to parse
TextPrefixes ==
    { <<>>, <<"a">>, <<"a","b">>, <<"A">>, <<"a","1">>,
      <<"U+4E2D","a">>, <<"U+4E2D">>, <<"U+00E9">> }

\* what stands between the parts: one separator, a wrong one, two
TextSeparators == { <<"_">>, <<"-">>, <<"_","_">> }

\* the second part: empty, a character short (of digits, of bad characters),
\* well-formed (zero, UidB), outside the alphabet, too large for 20 bytes
TextUids ==
    { <<>>, Repeat("0", BASE62_LENGTH - 1), Repeat("!", BASE62_LENGTH - 1),
      Repeat("0", BASE62_LENGTH), KsuidStr(UidB),
      Repeat("!", BASE62_LENGTH), Repeat("z", BASE62_LENGTH) }

Texts == { p \o sep \o u : p \in TextPrefixes, sep \in TextSeparators, u \in TextUids }

\* texts a validator is fed: right and wrong in prefix, separator and uid
FieldTexts ==
    { p \o sep \o u : p \in { <<"a">>, <<"A">> }, sep \in { <<"_">>, <<"-">> },
                       u \in { Repeat("0", BASE62_LENGTH), Repeat("0", BASE62_LENGTH - 1),
                               Repeat("!", BASE62_LENGTH), Repeat("z", BASE62_LENGTH) } }

\* texts of the canonical form, with a prefix that parses
CanonicalTexts ==
    { p \o <<"_">> \o u : p \in { <<"a">>, <<"U+4E2D","a">> },
                          u \in { Repeat("0", BASE62_LENGTH), KsuidStr(UidB) } }

\* annotations of a model field: LPID bare, LPID[Literal[p]]
SourceTypes == { BareLpid } \cup { LpidType(p) : p \in Prefixes \cup {<<>>} }

Instants == 0..MaxInstant

-----------------------------------------------------------------------------
(* Specifications.  Next is every call with every input; the others are    *)
(* the calls one part of the interface is made of.                         *)

MakeOf(prefixes) ==
    \/ \E prefix \in prefixes, uid \in UidSources : Call_new(prefix, uid)
    \/ Keep
    \/ \E i \in DOMAIN heap : Release(i)

Make == MakeOf(Prefixes)

ParseOf(texts) ==
    \E string \in texts, prefix \in Prefixes :
        Call_from_string(string, prefix, NoValue, "")

Parse == ParseOf(Texts)

\* str(x) of the instance just returned, and that text parsed for x's prefix
RoundTrip ==
    \/ Fresh /\ Call_str(ret.out.value, ret.op)
    \/ ret.op = "str" /\ Call_from_string(ret.out.value.text, ret.self.prefix,
                                          ret.self, ret.via)

Generate ==
    \E prefix \in Prefixes, at \in Instants : Call_generate(prefix, at)

GenerateNow ==
    \E prefix \in Prefixes : Call_generate(prefix, None)

Factories ==
    \/ \E prefix \in Prefixes : Call_LPID_factory(prefix)
    \/ \E prefix \in Prefixes : Call_factory(LpidType(prefix))
    \/ \E closure \in closures : Call_f(closure)
    \/ \E closure \in closures : DropClosure(closure)

CompareOf(ops, strangers) ==
    \E op \in ops, i \in DOMAIN heap :
        \E other \in Range(heap) \cup strangers : Call_compare(op, heap[i], other)

Compare == CompareOf(CompareOps, Strangers)

ValidateOf(texts) ==
    \/ \E t \in SourceTypes, string \in texts : Validate_python(t, StrValue(string))
    \/ \E t \in SourceTypes, string \in texts : Validate_json(t, StrValue(string))
    \/ \E t \in SourceTypes : Fresh /\ Validate_python(t, ret.out.value)

Validate == ValidateOf(Texts)

Next ==
    \/ Tick
    \/ Make
    \/ Parse
    \/ RoundTrip
    \/ Generate
    \/ GenerateNow
    \/ Factories
    \/ Compare
    \/ Validate

Spec == Init /\ [][Next]_vars

\* parsing alone
SpecParse == Init /\ [][Parse]_vars

\* every way to an instance, and the way back through its text
SpecRoundTrip ==
    Init /\ [][Call_new(<<"A">>, KsuidValue(UidA)) \/ ParseOf(CanonicalTexts) \/ Generate
               \/ GenerateNow \/ Factories \/ RoundTrip]_vars

\* instances held and compared, with each other and with other values
SpecCompare == Init /\ [][MakeOf({<<"a">>, <<"A">>}) \/ Compare]_vars

\* the relations ==, < and > on the instances held
SpecOrder ==
    Init /\ [][MakeOf({<<"a">>, <<"a", "b">>}) \/ CompareOf({"eq", "lt", "gt"}, {})]_vars

\* generation for given instants: one instance held, the next one generated
SpecMonotonic ==
    Init /\ [][Generate \/ (heap = <<>> /\ Keep)
               \/ (\E i \in DOMAIN heap : Release(i))]_vars

\* generation from the clock
SpecClock == Init /\ [][Tick \/ GenerateNow \/ Factories]_vars

\* the validators of the schema
SpecValidate ==
    Init /\ [][(\E prefix \in Prefixes : Call_new(prefix, KsuidValue(UidA)))
               \/ ValidateOf(FieldTexts)]_vars

-----------------------------------------------------------------------------
(* Properties.                                                             *)

\* every instance there is: those held, and the one just returned
Live == Range(heap) \cup (IF Fresh THEN {ret.out.value} ELSE {})

\* a prefix of the shape ^[a-z]+$
AsciiLowercase(p) == p # <<>> /\ \A i \in DOMAIN p : p[i] \in Lowercase

\* a prefix of the shape from_string lets through: letters only, none of them
\* uppercase, one of them at least lowercase
WellFormed(p) ==
    /\ p # <<>>
    /\ \A i \in DOMAIN p : IsLetter(p[i]) /\ ~IsUpperChar(p[i])
    /\ \E i \in DOMAIN p : IsLowerChar(p[i])

\* s before t in lexicographic order: they agree on k characters, and then s
\* ends and t does not, or s has the smaller character
LexLess(s, t) ==
    \E k \in 0..Len(s) :
        /\ k <= Len(t)
        /\ \A i \in 1..k : s[i] = t[i]
        /\ \/ k = Len(s) /\ k < Len(t)
           \/ k < Len(s) /\ k < Len(t) /\ CodePoint(s[k+1]) < CodePoint(t[k+1])

SameValue(a, b) == a.cls = "LPID" /\ b.cls = "LPID" /\ a.prefix = b.prefix /\ a.uid = b.uid

\* ret is the parse of str(x) for x's own prefix
ParsedBack == ret.op = "from_string" /\ ret.self.cls = "LPID"

ErrorKind(out) ==
    CASE out.exc = "" -> "Identifier"
      [] out.msg = "form" -> "FormatError"
      [] out.msg \in {"prefix_not_alphabetic", "prefix_not_lowercase"} -> "InvalidPrefixShape"
      [] out.msg = "prefix_not_expected" -> "PrefixMismatch"
      [] out.msg \in {"uid_empty", "uid_not_27"} -> "InvalidUidLength"
      [] out.msg = "from_base62" -> "MalformedUid"

Underscores(text) == { i \in DOMAIN text : text[i] = "_" }

\* the five steps in their order, with shape(p) saying when a first part passes
\* step 2
Pipeline(text, expected, shape(_)) ==
    IF Cardinality(Underscores(text)) # 1 THEN "FormatError"
    ELSE LET k == CHOOSE i \in Underscores(text) : TRUE
             first == SubSeq(text, 1, k - 1)
             second == SubSeq(text, k + 1, Len(text))
         IN  IF ~shape(first) THEN "InvalidPrefixShape"
             ELSE IF first # expected THEN "PrefixMismatch"
             ELSE IF second = <<>> \/ Len(second) # 27 THEN "InvalidUidLength"
             ELSE IF from_base62(second).exc # "" THEN "MalformedUid"
             ELSE "Identifier"

AllLowercaseLetters(p) == p # <<>> /\ \A i \in DOMAIN p : IsLowerChar(p[i])

\* C2: from_string reports the first failing step of: two parts around one "_"
\* (FormatError), first part not empty and all lowercase letters
\* (InvalidPrefixShape), first part the expected prefix (PrefixMismatch), second
\* part of 27 characters (InvalidUidLength), second part decodes (MalformedUid);
\* a text passing them all yields an identifier.
C2_FixedOrder ==
    ret.op = "from_string"
        => ErrorKind(ret.out) = Pipeline(ret.text, ret.prefix, AllLowercaseLetters)

\* C3: every instance, however made, has a prefix of lowercase ASCII
\* letters, at least one.
C3_PrefixInvariant == \A x \in Live : AsciiLowercase(x.prefix)

\* from_string returned an identifier whose prefix is no ASCII word
C3_Witness ==
    /\ Fresh
    /\ ret.op = "from_string"
    /\ ~AsciiLowercase(ret.out.value.prefix)

IsCompare(ops) == ret.op \in ops /\ ret.self.cls = "LPID"

\* C4: for two identifiers a and b of one prefix, a < b iff a.uid < b.uid and
\* a > b iff a.uid > b.uid; of different prefixes, a < b iff a.prefix is before
\* b.prefix in lexicographic order, whatever the uids.
C4_OrderingConsistency ==
    /\ (IsCompare({"lt"}) /\ ret.other.cls = "LPID")
          => /\ Returned(ret.out)
             /\ ret.out.bool = IF ret.self.prefix = ret.other.prefix
                               THEN KsuidLt(ret.self.uid, ret.other.uid)
                               ELSE LexLess(ret.self.prefix, ret.other.prefix)
    /\ (IsCompare({"gt"}) /\ ret.other.cls = "LPID" /\ ret.self.prefix = ret.other.prefix)
          => /\ Returned(ret.out)
             /\ ret.out.bool = KsuidLt(ret.other.uid, ret.self.uid)

\* a < b held by the prefixes against the order of the uids
C4_Witness ==
    /\ IsCompare({"lt"})
    /\ ret.other.cls = "LPID"
    /\ ret.self.prefix # ret.other.prefix
    /\ KsuidLt(ret.other.uid, ret.self.uid)
    /\ ret.out.bool

\* C5: <, >, __gte__ and __lte__ against a value that is no identifier raise
\* TypeError; == against it returns False; between two identifiers none of
\* them raises, whatever the prefixes.
C5_KindMismatch ==
    /\ (IsCompare({"lt", "gt", "gte", "lte"}) /\ ret.other.cls # "LPID")
          => ret.out.exc = "TypeError"
    /\ (IsCompare({"eq"}) /\ ret.other.cls # "LPID")
          => Returned(ret.out) /\ ~ret.out.bool
    /\ (IsCompare(CompareOps) /\ ret.other.cls = "LPID") => Returned(ret.out)

\* __gte__ against a KsuidMs raised
C5_Witness ==
    /\ IsCompare({"gte"})
    /\ ret.other.cls = "KsuidMs"
    /\ ret.out.exc = "TypeError"

Eq(a, b) == Returned(__eq__(a, b)) /\ __eq__(a, b).bool
Lt(a, b) == Returned(__lt__(a, b)) /\ __lt__(a, b).bool
Gt(a, b) == Returned(__gt__(a, b)) /\ __gt__(a, b).bool

\* C6: a == b iff the prefixes are equal and the uids are equal; == is
\* reflexive, symmetric and transitive, and holds of two instances built apart
\* from one prefix and one uid.
C6_EqualityEquivalence ==
    /\ \A a \in Live : Eq(a, a)
    /\ \A a, b \in Live : Eq(a, b) <=> (a.prefix = b.prefix /\ a.uid = b.uid)
    /\ \A a, b \in Live : Eq(a, b) => Eq(b, a)
    /\ \A a, b, c \in Live : (Eq(a, b) /\ Eq(b, c)) => Eq(a, c)
    /\ \A i, j \in DOMAIN heap : SameValue(heap[i], heap[j]) => Eq(heap[i], heap[j])

\* == held of two instances, one built from a KsuidMs and one from its text
C6_Witness ==
    /\ IsCompare({"eq"})
    /\ ret.out.bool
    /\ \E i, j \in DOMAIN heap :
          /\ i # j
          /\ ret.self = heap[i] /\ ret.other = heap[j]
          /\ origin[i].uid = "KsuidMs" /\ origin[j].uid = "str"

\* an instant generate was given, and the instance it made
Generated ==
    { [x |-> heap[i], at |-> origin[i].at] : i \in { j \in DOMAIN heap : origin[j].via = "generate" } }
    \cup (IF Fresh /\ ret.op = "generate" THEN {[x |-> ret.out.value, at |-> ret.at]} ELSE {})

\* C7 as stated: for one prefix and instants t1 < t2, generate(prefix, t1) <
\* generate(prefix, t2), whatever the payloads.
C7_MonotonicGeneration ==
    \A a, b \in Generated :
        (a.x.prefix = b.x.prefix /\ a.at < b.at) => Lt(a.x, b.x)

\* C7 amended: for one prefix and instants t1 < t2 that fall into different
\* ticks of the uid's timestamp, generate(prefix, t1) < generate(prefix, t2),
\* whatever the payloads; for t1 < t2 of one tick the payloads decide, and the
\* timestamp of the first is never the later one.
C7_MonotonicAcrossTicks ==
    \A a, b \in Generated :
        (a.x.prefix = b.x.prefix /\ a.at < b.at)
            => /\ KsuidTick(a.x.uid) <= KsuidTick(b.x.uid)
               /\ TickOf(a.at) < TickOf(b.at) => (Lt(a.x, b.x) /\ Gt(b.x, a.x))

\* an earlier instance with the larger payload is the smaller one
C7_Witness ==
    \E a, b \in Generated :
        /\ a.x.prefix = b.x.prefix
        /\ TickOf(a.at) < TickOf(b.at)
        /\ a.x.uid[BYTES_LENGTH] > b.x.uid[BYTES_LENGTH]
        /\ Lt(a.x, b.x)

\* ret is a generation that read the clock
FromClock == ret.op = "f" \/ (ret.op = "generate" /\ ret.via = "clock")

\* C8: generate(prefix) with no instant, and every call of a callable that
\* LPID.factory(prefix) or factory(type) returned, makes its uid from the clock
\* as it stands at that call, and returns an identifier with the bound prefix.
C8_ClockReadPerCall ==
    FromClock
        => /\ Returned(ret.out)
           /\ ret.out.value.cls = "LPID"
           /\ ret.out.value.prefix = ret.prefix
           /\ KsuidTick(ret.out.value.uid) = TickOf(ret.at)

\* a callable made in one tick was called in a later one
C8_Witness ==
    /\ ret.op = "f"
    /\ ret.via = "factory"
    /\ TickOf(ret.made) < TickOf(ret.at)
    /\ Returned(ret.out)

IsValidation == ret.op \in {"val_prefix", "json_schema"} /\ ret.out.exc # "RuntimeError"

\* C9: the validator bound to the literal prefix P returns only identifiers of
\* prefix P; a string from_string(v, P) rejects, and an identifier of another
\* prefix, are rejected with an AssertionError.
C9_ValidatorSoundness ==
    IsValidation
        => /\ Returned(ret.out)
                => (ret.out.value.cls = "LPID" /\ ret.out.value.prefix = ret.prefix)
           /\ (ret.self.cls = "str" /\ ~Returned(from_string(ret.self.text, ret.prefix)))
                => ret.out.exc = "AssertionError"
           /\ (ret.self.cls = "LPID" /\ ret.self.prefix # ret.prefix)
                => ret.out.exc = "AssertionError"

\* C10: of a < b, a == b, a > b exactly one holds; a < b iff b > a; < is
\* transitive.
C10_StrictTotalOrder ==
    /\ \A a, b \in Live :
          /\ Lt(a, b) \/ Eq(a, b) \/ Gt(a, b)
          /\ ~(Lt(a, b) /\ Eq(a, b))
          /\ ~(Lt(a, b) /\ Gt(a, b))
          /\ ~(Eq(a, b) /\ Gt(a, b))
          /\ Lt(a, b) <=> Gt(b, a)
    /\ \A a, b, c \in Live : (Lt(a, b) /\ Lt(b, c)) => Lt(a, c)

\* three instances in a row, the uids deciding one step and the prefixes the other
C10_Witness ==
    \E a, b, c \in Live :
        /\ Lt(a, b) /\ Lt(b, c)
        /\ a.prefix = b.prefix
        /\ b.prefix # c.prefix
        /\ KsuidLt(c.uid, b.uid)

=============================================================================
